---- MODULE Spec2Model ----
(***************************************************************************)
(* Text-run composition of SVG documents exported from Affinity:           *)
(*   - fix_affinity_svg.py : line normalization (literal backslash-n in    *)
(*     <text>/<tspan> content becomes <tspan> line runs);                  *)
(*   - rename_test.py      : field update by element id (TITLE,            *)
(*     DESCRIPTION), with backup and serialization.                        *)
(*                                                                         *)
(* Representation.                                                         *)
(*   An element is a record                                                *)
(*     [tag, ns, attrs, text, tail, kids]                                  *)
(*   tag   : the local name ("svg", "g", "text", "tspan", "rect")          *)
(*   ns    : "svg" for the SVG namespace, "" for no namespace              *)
(*   attrs : a function from the names of the attributes present to their  *)
(*           values                                                        *)
(*   text, tail : optional strings; None is {} and a string s is {s}       *)
(*   kids  : the sequence of child elements.                               *)
(*   A string is a sequence of one-character strings, so that the          *)
(*   two-character escape marker (backslash, n) and the line feed are      *)
(*   found the way str.split finds them.  A style value is a sequence of   *)
(*   lexical tokens ("font-size", ":", " ", "10", "px", ";", ...), each    *)
(*   standing for its characters; an x value is its whitespace-separated   *)
(*   list of coordinates; a dy value is a TLA+ string.                     *)
(***************************************************************************)
EXTENDS Naturals, Sequences, FiniteSets, TLC

VARIABLES
    prog,       \* which script runs: "fix" (fix_affinity_svg.py) or "rename" (rename_test.py)
    pc,         \* position in main()
    args,       \* the command line
    fs,         \* the file system: path -> optional file content
    tree,       \* the parsed element tree (None before parsing)
    queue,      \* fix: the elements (paths) the current loop of main still has to process
    flag,       \* fix: changed; rename: updated_any
    out,        \* what was printed: sequence of [stream, msg]
    status,     \* "running", "0" (normal exit) or "1" (failure exit)
    log,        \* the file effects so far, in order
    hist,       \* observation: fix: the trees written by the passes so far;
                \*              rename: one record per set_text_by_id call
    pass        \* fix: number of the current invocation (1 = first run, 2 = run on its output)

vars == <<prog, pc, args, fs, tree, queue, flag, out, status, log, hist, pass>>

-----------------------------------------------------------------------------
(* Optional values (Python's None) *)

None == {}
Some(v) == {v}
TheVal(o) == CHOOSE v \in o : TRUE
\* Python truthiness of an optional string
Truthy(o) == \E v \in o : v # <<>>

(* Elements *)

NoAttrs == [a \in {} |-> ""]
Elem(tag, ns, attrs, text, tail, kids) ==
    [tag |-> tag, ns |-> ns, attrs |-> attrs, text |-> text, tail |-> tail, kids |-> kids]
\* el.get(name)
AttrGet(el, name) == IF name \in DOMAIN el.attrs THEN Some(el.attrs[name]) ELSE None
\* el.set(name, value)
AttrSet(el, name, value) ==
    [el EXCEPT !.attrs = [a \in (DOMAIN el.attrs) \cup {name} |->
                              IF a = name THEN value ELSE el.attrs[a]]]

RECURSIVE NodeAt(_, _)
\* the element at path p (a sequence of child indices) under t
NodeAt(t, p) == IF p = <<>> THEN t ELSE NodeAt(t.kids[Head(p)], Tail(p))

RECURSIVE ReplaceAt(_, _, _)
\* t with the element at path p replaced by e (an in-place mutation of that element)
ReplaceAt(t, p, e) ==
    IF p = <<>> THEN e
    ELSE [t EXCEPT !.kids[Head(p)] = ReplaceAt(t.kids[Head(p)], Tail(p), e)]

RECURSIVE DescendantPaths(_, _)
\* the paths of the proper descendants of t in document order (pre-order), each
\* prefixed by pre
DescendantPaths(t, pre) ==
    LET RECURSIVE From(_)
        From(i) == IF i > Len(t.kids) THEN <<>>
                   ELSE <<Append(pre, i)>> \o DescendantPaths(t.kids[i], Append(pre, i))
                        \o From(i + 1)
    IN From(1)

-----------------------------------------------------------------------------
(* Strings *)

BS == "\\"
\* "\\n" in s : the two-character escape marker occurs in s
HasMarker(s) == \E i \in 1..(Len(s) - 1) : s[i] = BS /\ s[i + 1] = "n"

\* the split made at the first marker only (s.split("\\n", 1))
split_first_only(s) ==
    IF ~HasMarker(s) THEN <<s>>
    ELSE LET i == CHOOSE k \in 1..(Len(s) - 1) :
                     /\ s[k] = BS /\ s[k + 1] = "n"
                     /\ \A m \in 1..(k - 1) : ~(s[m] = BS /\ s[m + 1] = "n")
         IN <<SubSeq(s, 1, i - 1), SubSeq(s, i + 2, Len(s))>>

RECURSIVE SplitMarker(_)
\* s.split("\\n") : the substrings between the non-overlapping occurrences of the
\* marker, found from the left; always at least one substring
SplitMarker(s) ==
    IF ~HasMarker(s) THEN <<s>>
    ELSE LET i == CHOOSE k \in 1..(Len(s) - 1) :
                     /\ s[k] = BS /\ s[k + 1] = "n"
                     /\ \A m \in 1..(k - 1) : ~(s[m] = BS /\ s[m + 1] = "n")
         IN <<SubSeq(s, 1, i - 1)>> \o SplitMarker(SubSeq(s, i + 2, Len(s)))

LF == "\n"
\* the value taken as a single line
split_nothing(s) == <<s>>
RECURSIVE SplitLF(_)
\* value.split("\n") : the substrings between the line feeds
SplitLF(s) ==
    IF \A i \in 1..Len(s) : s[i] # LF THEN <<s>>
    ELSE LET i == CHOOSE k \in 1..Len(s) : s[k] = LF /\ \A m \in 1..(k - 1) : s[m] # LF
         IN <<SubSeq(s, 1, i - 1)>> \o SplitLF(SubSeq(s, i + 1, Len(s)))

-----------------------------------------------------------------------------
(* fix_affinity_svg.py : style values *)

SP == " "
\* the number tokens of the style lexicon and their values (float(m.group(1)))
NumTokens == {"0", "8", "10"}
NumVal(tok) == CASE tok = "0" -> 0 [] tok = "8" -> 8 [] tok = "10" -> 10

\* the index after the run of spaces that starts at i (the regular expression's \s*)
RECURSIVE SkipSpaces(_, _)
SkipSpaces(toks, i) == IF i <= Len(toks) /\ toks[i] = SP THEN SkipSpaces(toks, i + 1) ELSE i

\* whether  font-size\s*:\s*([0-9.]+)px  matches toks at i
FontSizeMatchAt(toks, i) ==
    /\ toks[i] = "font-size"
    /\ LET c == SkipSpaces(toks, i + 1)
           n == SkipSpaces(toks, c + 1)
       IN /\ c <= Len(toks) /\ toks[c] = ":"
          /\ n + 1 <= Len(toks) /\ toks[n] \in NumTokens /\ toks[n + 1] = "px"

\* parse_font_size(style_attr): the declared pixel font size, None when the style is
\* missing or empty or declares none; the leftmost match counts (re.search)
parse_font_size(style) ==
    IF ~Truthy(style) THEN None
    ELSE LET toks == TheVal(style)
             hits == {i \in 1..Len(toks) : FontSizeMatchAt(toks, i)}
         IN IF hits = {} THEN None
            ELSE LET i == CHOOSE k \in hits : \A m \in hits : k <= m
                 IN Some(NumVal(toks[SkipSpaces(toks, SkipSpaces(toks, i + 1) + 1)]))

\* a or b on optional numbers: the first that is neither None nor zero
OrNum(a, b) == IF \E v \in a : v # 0 THEN a ELSE b

DefaultFontSize == 12
\* the text of an f-string of font_size * 1.2, font_size a float: Python prints the
\* shortest decimal that reads back as the IEEE-754 double of the product
LineHeightRepr(fontSize) ==
    CASE fontSize = 8  -> "9.6"
      [] fontSize = 10 -> "12.0"
      [] fontSize = 12 -> "14.399999999999999"
\* f"{line_height_px}px"
PxLength(fontSize) == LineHeightRepr(fontSize) \o "px"

\* the end (exclusive) of the maximal run of tokens other than ";" that starts at i
RECURSIVE SkipNonSemi(_, _)
SkipNonSemi(toks, i) == IF i <= Len(toks) /\ toks[i] # ";" THEN SkipNonSemi(toks, i + 1) ELSE i

\* the end (exclusive) of a match of  white-space\s*:\s*[^;]+;?  at i, or 0 when the
\* expression does not match there.  [^;]+ takes every character up to the next
\* semicolon (spaces too, so \s* may give its spaces back to it).
WhiteSpaceMatchEnd(toks, i) ==
    IF toks[i] # "white-space" THEN 0
    ELSE LET c == SkipSpaces(toks, i + 1)
         IN IF ~(c <= Len(toks) /\ toks[c] = ":") THEN 0
            ELSE LET e == SkipNonSemi(toks, c + 1)
                 IN IF e = c + 1 THEN 0
                    ELSE IF e <= Len(toks) /\ toks[e] = ";" THEN e + 1 ELSE e

RECURSIVE RemoveWhiteSpace(_, _)
\* re.sub(r'white-space\s*:\s*[^;]+;?', '', style) from position i on
RemoveWhiteSpace(toks, i) ==
    IF i > Len(toks) THEN <<>>
    ELSE LET e == WhiteSpaceMatchEnd(toks, i)
         IN IF e = 0 THEN <<toks[i]>> \o RemoveWhiteSpace(toks, i + 1)
            ELSE RemoveWhiteSpace(toks, e)

RECURSIVE CollapseSemis(_)
\* re.sub(r';{2,}', ';', style)
CollapseSemis(toks) ==
    IF Len(toks) < 2 THEN toks
    ELSE IF toks[1] = ";" /\ toks[2] = ";" THEN CollapseSemis(Tail(toks))
         ELSE <<toks[1]>> \o CollapseSemis(Tail(toks))

RECURSIVE StripChars(_, _)
\* str.strip(chars): the characters of chars removed from both ends
StripChars(toks, chars) ==
    IF toks = <<>> THEN toks
    ELSE IF Head(toks) \in chars THEN StripChars(Tail(toks), chars)
    ELSE IF toks[Len(toks)] \in chars THEN StripChars(SubSeq(toks, 1, Len(toks) - 1), chars)
    ELSE toks

\* the cleaning without the strip of lines 69-71: separators stay at the ends
clean_keeps_separators(toks) == CollapseSemis(RemoveWhiteSpace(toks, 1))

\* clean_white_space_in_style(style_attr), style_attr a non-empty string
clean_white_space_in_style(toks) ==
    StripChars(StripChars(CollapseSemis(RemoveWhiteSpace(toks, 1)), {SP}), {";", SP})

\* get_text_x(element): the first coordinate of x, None without one
get_text_x(el) ==
    IF \E v \in AttrGet(el, "x") : v # <<>> THEN Some(<<Head(el.attrs["x"])>>) ELSE None

-----------------------------------------------------------------------------
(* fix_affinity_svg.py : line splitting *)

\* etree.Element("tspan") with the attributes and text the loops give it
NewTspan(x, dy, line) ==
    LET a1 == IF x = None THEN NoAttrs ELSE [k \in {"x"} |-> TheVal(x)]
        a2 == IF dy = None THEN a1
              ELSE [k \in (DOMAIN a1) \cup {"dy"} |-> IF k = "dy" THEN TheVal(dy) ELSE a1[k]]
    IN Elem("tspan", "", a2, Some(line), None, <<>>)

\* the loop with a dy on every line, "0" on the first
split_tspans_dy_all(lines, base_x, fontSize) ==
    [i \in 1..Len(lines) |->
        NewTspan(base_x, IF i > 1 THEN Some(PxLength(fontSize)) ELSE Some("0"), lines[i])]

\* the tspans of the loop of split_into_tspans: an x when base_x is given, a dy of
\* the line height on every line but the first
SplitTspans(lines, base_x, fontSize) ==
    [i \in 1..Len(lines) |->
        NewTspan(base_x, IF i > 1 THEN Some(PxLength(fontSize)) ELSE None, lines[i])]

\* the split without line 81: the direct text stays
split_keeps_text(el, text, base_x, fontSize) ==
    [el EXCEPT !.kids = el.kids \o SplitTspans(SplitMarker(text), base_x, fontSize)]

\* split_into_tspans(el, text, base_x, line_height_px); the line height is carried
\* as the font size it is 1.2 times of
split_into_tspans(el, text, base_x, fontSize) ==
    [el EXCEPT !.text = None,
               !.kids = el.kids \o SplitTspans(SplitMarker(text), base_x, fontSize)]

\* child.tag.endswith("tspan") and child.text and "\\n" in child.text
Offending(child) == child.tag = "tspan" /\ Truthy(child.text) /\ HasMarker(TheVal(child.text))

\* the tspans that replace an offending child (lines 119-137)
SpliceTspans(child, base_x, font_size) ==
    LET lines == SplitMarker(TheVal(child.text))
        dy_first == AttrGet(child, "dy")
        x_child == IF \E v \in AttrGet(child, "x") : v # <<>> THEN AttrGet(child, "x") ELSE base_x
        fsz == TheVal(OrNum(parse_font_size(AttrGet(child, "style")),
                            OrNum(font_size, Some(DefaultFontSize))))
    IN [j \in 1..Len(lines) |->
           NewTspan(x_child,
                    IF j = 1 THEN (IF \E v \in dy_first : v # "" THEN dy_first ELSE None)
                    ELSE Some(PxLength(fsz)),
                    lines[j])]

\* the loop with the new tspans appended after the children that stay, instead of
\* inserted where the replaced child was
splice_at_end(kids, base_x, font_size) ==
    SelectSeq(kids, LAMBDA c : ~Offending(c))
    \o (LET RECURSIVE Lines(_)
            Lines(ks) == IF ks = <<>> THEN <<>>
                         ELSE (IF Offending(Head(ks))
                               THEN SpliceTspans(Head(ks), base_x, font_size) ELSE <<>>)
                              \o Lines(Tail(ks))
        IN Lines(kids))

RECURSIVE SpliceKids(_, _, _)
\* the children after the loop of lines 116-138: every offending child replaced, at
\* its place, by its lines (its tail goes with it); the others stay
SpliceKids(kids, base_x, font_size) ==
    IF kids = <<>> THEN <<>>
    ELSE (IF Offending(Head(kids)) THEN SpliceTspans(Head(kids), base_x, font_size)
          ELSE <<Head(kids)>>)
         \o SpliceKids(Tail(kids), base_x, font_size)

\* lines 100-107: xml:space="preserve", and white-space taken out of the style
Sanitized(text_el) ==
    LET style_attr == AttrGet(text_el, "style")
        e1 == AttrSet(text_el, "xml:space", "preserve")
    IN IF Truthy(style_attr) /\ \E i \in 1..Len(TheVal(style_attr)) :
                                      TheVal(style_attr)[i] = "white-space"
       THEN LET cleaned == clean_white_space_in_style(TheVal(style_attr))
            IN IF cleaned # TheVal(style_attr) THEN AttrSet(e1, "style", cleaned) ELSE e1
       ELSE e1

\* if text_el.text and "\\n" in text_el.text (line 110)
DirectMarker(text_el) == Truthy(text_el.text) /\ HasMarker(TheVal(text_el.text))

\* process_text_node(text_el): the element as the call leaves it
process_text_node(text_el) ==
    LET font_size == parse_font_size(AttrGet(text_el, "style"))
        base_x == get_text_x(text_el)
        e2 == Sanitized(text_el)
    IN IF DirectMarker(text_el)
       THEN split_into_tspans(e2, TheVal(text_el.text), base_x,
                              TheVal(OrNum(font_size, Some(DefaultFontSize))))
       ELSE [e2 EXCEPT !.kids = SpliceKids(e2.kids, base_x, font_size)]

\* process_text_node(text_el): the value returned
process_changed(text_el) ==
    DirectMarker(text_el) \/ \E i \in 1..Len(text_el.kids) : Offending(text_el.kids[i])

-----------------------------------------------------------------------------
(* Files *)

\* a file's content: well-formed XML with its element tree, or bytes no parser accepts
XmlFile(root) == [wf |-> TRUE, root |-> Some(root)]
Malformed == [wf |-> FALSE, root |-> None]
FileGet(files, path) == IF path \in DOMAIN files THEN files[path] ELSE None
FilePut(files, path, content) ==
    [p \in (DOMAIN files) \cup {path} |-> IF p = path THEN content ELSE files[p]]

RECURSIVE Serialize(_)
\* tree.write followed by a parse of what was written: the same elements, attributes
\* and order; an empty string and no string are both written as nothing, and read
\* back as None.  (The indentation that pretty_print adds is left out.)
Serialize(t) ==
    [t EXCEPT !.text = IF Truthy(t.text) THEN t.text ELSE None,
              !.tail = IF Truthy(t.tail) THEN t.tail ELSE None,
              !.kids = [i \in 1..Len(t.kids) |-> Serialize(t.kids[i])]]

Say(stream, msg) == [stream |-> stream, msg |-> msg]
Effect(op, path) == [op |-> op, path |-> path]

-----------------------------------------------------------------------------
(* fix_affinity_svg.py : main *)

\* root.xpath('//svg:text'): the text elements of the SVG namespace, the root included
XPathSvgText(root) ==
    SelectSeq(<<<<>>>> \o DescendantPaths(root, <<>>),
              LAMBDA p : NodeAt(root, p).tag = "text" /\ NodeAt(root, p).ns = "svg")

\* root.findall(".//{*}text"): the text descendants of the root, of any namespace or none
FindallText(root) ==
    SelectSeq(DescendantPaths(root, <<>>), LAMBDA p : NodeAt(root, p).tag = "text")

MaxPasses == 2

\* lines 142-144
FixUsage ==
    /\ prog = "fix" /\ pc = "start" /\ args.argc # 3
    /\ out' = Append(out, Say("stdout", "Usage"))
    /\ status' = "1" /\ pc' = "exit"
    /\ UNCHANGED <<prog, args, fs, tree, queue, flag, log, hist, pass>>

\* lines 145-152: parse, then evaluate the XPath of the first loop
FixParse ==
    /\ prog = "fix" /\ pc = "start" /\ args.argc = 3
    /\ LET f == FileGet(fs, args.inp)
       IN \/ /\ \E c \in f : c.wf
             /\ tree' = TheVal(f).root
             /\ queue' = XPathSvgText(TheVal(TheVal(f).root))
             /\ flag' = FALSE
             /\ log' = Append(log, Effect("read", args.inp))
             /\ pc' = "loop1"
             /\ UNCHANGED status
          \/ /\ ~(\E c \in f : c.wf)       \* etree.parse raises: the interpreter exits with 1
             /\ status' = "1" /\ pc' = "exit"
             /\ UNCHANGED <<tree, queue, flag, log>>
    /\ UNCHANGED <<prog, args, fs, out, hist, pass>>

\* one iteration of a loop of main (lines 152-154, 156-158)
FixProcess ==
    /\ prog = "fix" /\ pc \in {"loop1", "loop2"} /\ queue # <<>>
    /\ LET p == Head(queue)
           el == NodeAt(TheVal(tree), p)
       IN /\ tree' = Some(ReplaceAt(TheVal(tree), p, process_text_node(el)))
          /\ flag' = (flag \/ process_changed(el))
    /\ queue' = Tail(queue)
    /\ UNCHANGED <<prog, pc, args, fs, out, status, log, hist, pass>>

\* line 156: the first loop is over; evaluate findall for the second
FixFindall ==
    /\ prog = "fix" /\ pc = "loop1" /\ queue = <<>>
    /\ queue' = FindallText(TheVal(tree))
    /\ pc' = "loop2"
    /\ UNCHANGED <<prog, args, fs, tree, flag, out, status, log, hist, pass>>

\* lines 160-163
FixWrite ==
    /\ prog = "fix" /\ pc = "loop2" /\ queue = <<>>
    /\ \/ /\ fs' = FilePut(fs, args.outp, Some(XmlFile(Serialize(TheVal(tree)))))
          /\ log' = Append(log, Effect("write", args.outp))
          /\ out' = out \o <<Say("stdout", "Wrote")>>
                        \o (IF ~flag THEN <<Say("stdout", "Note")>> ELSE <<>>)
          /\ hist' = Append(hist, Serialize(TheVal(tree)))
          /\ status' = "0"
       \/ /\ status' = "1"                 \* tree.write raises
          /\ UNCHANGED <<fs, log, out, hist>>
    /\ pc' = "exit"
    /\ UNCHANGED <<prog, args, tree, queue, flag, pass>>

\* the script is run again, on the file it wrote
FixRerun ==
    /\ prog = "fix" /\ pc = "exit" /\ status = "0" /\ pass < MaxPasses
    /\ pass' = pass + 1
    /\ args' = [argc |-> 3, inp |-> args.outp, outp |-> "out" \o ToString(pass + 1) \o ".svg"]
    /\ pc' = "start" /\ status' = "running"
    /\ tree' = None /\ queue' = <<>> /\ flag' = FALSE /\ out' = <<>>
    /\ UNCHANGED <<prog, fs, log, hist>>

NextFix == FixUsage \/ FixParse \/ FixProcess \/ FixFindall \/ FixWrite \/ FixRerun

-----------------------------------------------------------------------------
(* fix_affinity_svg.py : the documents the model is run on *)

MaxTextLen == 5
MaxKids == 2

Chars == {"a", BS, "n"}
StringsUpTo(n) == UNION {[1..k -> Chars] : k \in 0..n}
SeqsUpTo(S, n) == UNION {[1..k -> S] : k \in 0..n}

StyleFont10 == <<"font-size", ":", "10", "px">>
StyleWsFont10 == <<"white-space", ":", "pre", ";", "font-size", ":", SP, "10", "px">>
StyleFillWs == <<"fill", ":", "red", ";", "white-space", SP, ":", SP, "pre", SP, ";">>
StyleFont0 == <<"font-size", ":", "0", "px">>
StyleFontPt == <<"font-size", ":", "10", "pt", ";">>
StyleFont8 == <<"fill", ":", "red", ";", "font-size", SP, ":", "8", "px">>
FixStyles == {None, Some(StyleFont10), Some(StyleWsFont10), Some(StyleFillWs),
              Some(StyleFont0), Some(StyleFontPt), Some(StyleFont8)}

\* attributes from optional values: the names whose value is given
OptAttrs(opts) ==
    [a \in {n \in DOMAIN opts : opts[n] # None} |-> TheVal(opts[a])]

TextEl(ns, style, x, text, kids) ==
    Elem("text", ns, OptAttrs([style |-> style, x |-> x]), text, None, kids)

\* the children a text element of the documents may have
KidPlain == Elem("tspan", "svg", NoAttrs, Some(<<"a">>), Some(<<SP>>), <<>>)
KidMarker == Elem("tspan", "svg", OptAttrs([x |-> Some(<<"9">>), dy |-> Some("3")]),
                  Some(<<"a", BS, "n", "b">>), Some(<<SP>>), <<>>)
KidMarker8 == Elem("tspan", "", OptAttrs([style |-> Some(<<"font-size", ":", "8", "px">>)]),
                   Some(<<BS, "n", "a">>), None, <<>>)
KidMarkerDyEmpty == Elem("tspan", "svg", OptAttrs([dy |-> Some("")]),
                        Some(<<"b", BS, "n">>), None, <<>>)
KidLink == Elem("a", "svg", NoAttrs, Some(<<"a", BS, "n">>), None, <<>>)
KidOptions == {KidPlain, KidMarker, KidMarker8, KidMarkerDyEmpty, KidLink}

\* a second text element, nested in a group before the first
OtherPlain == Elem("text", "svg", OptAttrs([style |-> Some(StyleFillWs)]),
                   Some(<<"t">>), None, <<>>)
OtherMarker == Elem("text", "", NoAttrs, Some(<<"t", BS, "n">>), None, <<KidMarker>>)

FixDoc(other, text_el) ==
    Elem("svg", "svg", NoAttrs, None, None,
         << Elem("g", "svg", NoAttrs, None, None, <<other>>), text_el >>)

\* direct texts of every shape, few children
FixDocsA ==
    { FixDoc(OtherPlain, TextEl(ns, style, None, text, kids)) :
        ns \in {"svg", ""}, style \in {None, Some(StyleFont10)},
        text \in {None} \cup {Some(s) : s \in StringsUpTo(MaxTextLen) \ {<<>>}},
        kids \in {<<>>, <<KidMarker>>} }
\* children of every shape, few direct texts
FixDocsB ==
    { FixDoc(OtherPlain, TextEl(ns, style, x, text, kids)) :
        ns \in {"svg", ""}, style \in {None, Some(StyleWsFont10)},
        x \in {None, Some(<<"5", "7">>)},
        text \in {None, Some(<<"a">>), Some(<<"a", BS, "n", "b">>)},
        kids \in SeqsUpTo(KidOptions, MaxKids) }
\* the payload "Line A\\nLine B\\n\\nLine D" of the specification's scenario, shortened
FourLines == <<"a", BS, "n", "b", BS, "n", BS, "n", "a">>
\* styles and coordinates of every shape
FixDocsC ==
    { FixDoc(other, TextEl(ns, style, x, text, kids)) :
        other \in {OtherPlain, OtherMarker},
        ns \in {"svg", ""}, style \in FixStyles,
        x \in {None, Some(<<>>), Some(<<"5", "7">>)},
        text \in {None, Some(<<"a">>), Some(FourLines)},
        kids \in {<<>>, <<KidMarker>>} }
\* styles built from lists of declarations: with and without spaces after the
\* separator, with and without a trailing separator
MaxDecls == 2
DeclFill == <<"fill", ":", "red">>
DeclFont == <<"font-size", ":", SP, "10", "px">>
DeclWs == <<"white-space", ":", "pre">>
DeclWsSpaced == <<"white-space", SP, ":", SP, "pre", SP>>
DeclOptions == {DeclFill, DeclFont, DeclWs, DeclWsSpaced}
RECURSIVE JoinDecls(_, _)
JoinDecls(ds, sep) ==
    IF Len(ds) = 1 THEN ds[1] ELSE ds[1] \o sep \o JoinDecls(Tail(ds), sep)
DeclStyles ==
    { JoinDecls(ds, sep) \o trail :
        ds \in UNION {[1..k -> DeclOptions] : k \in 1..MaxDecls},
        sep \in {<<";">>, <<";", SP>>}, trail \in {<<>>, <<";">>} }
    \cup { JoinDecls(<<DeclFill, DeclWs, DeclFont>>, <<";", SP>>),
           JoinDecls(<<DeclFill, DeclWs, DeclWsSpaced, DeclFont>>, <<";">>) \o <<";">> }
\* declarations of every shape
FixDocsD ==
    { FixDoc(OtherPlain, TextEl(ns, Some(style), None, text, kids)) :
        ns \in {"svg", ""}, style \in DeclStyles,
        text \in {None, Some(<<"a">>)}, kids \in {<<>>, <<KidMarker>>} }
FixDocs == FixDocsA \cup FixDocsB \cup FixDocsC \cup FixDocsD

InitFix ==
    /\ prog = "fix" /\ pc = "start" /\ status = "running" /\ pass = 1
    /\ \E content \in {XmlFile(d) : d \in FixDocs} \cup {Malformed}, argc \in {2, 3} :
          /\ argc = 3 \/ content = Malformed
          /\ fs = [p \in {"in.svg"} |-> Some(content)]
          /\ args = [argc |-> argc, inp |-> "in.svg", outp |-> "out1.svg"]
    /\ tree = None /\ queue = <<>> /\ flag = FALSE
    /\ out = <<>> /\ log = <<>> /\ hist = <<>>

SpecFix == InitFix /\ [][NextFix]_vars

-----------------------------------------------------------------------------
(* rename_test.py : locating and writing *)

\* list(node): the paths of the children of the element at p
ChildPaths(t, p) == [i \in 1..Len(NodeAt(t, p).kids) |-> Append(p, i)]

\* _find_by_id(root, elem_id): root.find(".//*[@id='...']"), the first proper
\* descendant of the root, in document order, whose id is elem_id; None without one
_find_by_id(root, elem_id) ==
    LET hits == SelectSeq(DescendantPaths(root, <<>>),
                          LAMBDA p : AttrGet(NodeAt(root, p), "id") = Some(elem_id))
    IN IF hits = <<>> THEN None ELSE Some(Head(hits))

RECURSIVE FindLoop(_, _)
\* the while loop of _find_text_or_tspan_descendant (lines 59-66): the first node is
\* popped, and its children are put in front of the rest (stack[0:0] = list(node))
FindLoop(elem, stack) ==
    IF stack = <<>> THEN None
    ELSE LET node == NodeAt(elem, Head(stack))
         IN IF node.tag \in {"text", "tspan"} THEN Some(Head(stack))
            ELSE FindLoop(elem, ChildPaths(elem, Head(stack)) \o Tail(stack))

RECURSIVE FindLoopBreadthFirst(_, _)
\* the loop with the children put behind the rest (a queue)
FindLoopBreadthFirst(elem, stack) ==
    IF stack = <<>> THEN None
    ELSE LET node == NodeAt(elem, Head(stack))
         IN IF node.tag \in {"text", "tspan"} THEN Some(Head(stack))
            ELSE FindLoopBreadthFirst(elem, Tail(stack) \o ChildPaths(elem, Head(stack)))
find_breadth_first(elem) == FindLoopBreadthFirst(elem, ChildPaths(elem, <<>>))

\* _find_text_or_tspan_descendant(elem): the path, under elem, of the node returned
_find_text_or_tspan_descendant(elem) == FindLoop(elem, ChildPaths(elem, <<>>))

Empty == Some(<<>>)
\* lines 81-86: the node's text and tail and those of its children set to ""
Blanked(node) ==
    [node EXCEPT !.text = Empty, !.tail = Empty,
                 !.kids = [i \in 1..Len(node.kids) |->
                              [node.kids[i] EXCEPT !.text = Empty, !.tail = Empty]]]

RECURSIVE ClearLoop(_, _, _)
\* the while loop of _clear_all_text_descendants (lines 75-88)
ClearLoop(elem, stack, except_node) ==
    IF stack = <<>> THEN elem
    ELSE LET p == Head(stack)
             node == NodeAt(elem, p)
             rest == ChildPaths(elem, p) \o Tail(stack)
         IN IF p = except_node THEN ClearLoop(elem, rest, except_node)
            ELSE IF node.tag \in {"text", "tspan"}
                 THEN ClearLoop(ReplaceAt(elem, p, Blanked(node)), rest, except_node)
                 ELSE ClearLoop(elem, rest, except_node)

clear_nothing(elem, except_node) == elem

\* _clear_all_text_descendants(elem, except_node): elem as the call leaves it
_clear_all_text_descendants(elem, except_node) ==
    ClearLoop(elem, ChildPaths(elem, <<>>), except_node)

\* _apply_value_to_node(node, value)
_apply_value_to_node(node, value) ==
    [node EXCEPT !.text = Some(value), !.tail = Empty,
                 !.kids = [i \in 1..Len(node.kids) |->
                              [node.kids[i] EXCEPT !.text = Empty, !.tail = Empty]]]

\* the number of tspans among the first i children
TspanRank(kids, i) == Cardinality({j \in 1..i : kids[j].tag = "tspan"})

\* lines 127-143 with every line of the value given a tspan of its own: the lines
\* beyond the existing tspans are appended as new tspans
write_text_growing(elem, value) ==
    LET lines == SplitLF(value)
        n == TspanRank(elem.kids, Len(elem.kids))
        kept == [i \in 1..Len(elem.kids) |->
                    IF elem.kids[i].tag # "tspan" THEN elem.kids[i]
                    ELSE _apply_value_to_node(elem.kids[i],
                            IF TspanRank(elem.kids, i) <= Len(lines)
                            THEN lines[TspanRank(elem.kids, i)] ELSE <<>>)]
    IN IF n = 0 THEN [elem EXCEPT !.text = Some(value)]
       ELSE [elem EXCEPT !.text = None,
                         !.kids = kept \o [k \in 1..(IF Len(lines) > n THEN Len(lines) - n ELSE 0) |->
                                              Elem("tspan", "", NoAttrs, Some(lines[n + k]), Empty, <<>>)]]

\* lines 127-143: _set_text on a text element
write_text(elem, value) ==
    LET lines == SplitLF(value)
    IN IF TspanRank(elem.kids, Len(elem.kids)) = 0
       THEN [elem EXCEPT !.text = Some(value)]
       ELSE [elem EXCEPT
               !.text = None,
               !.kids = [i \in 1..Len(elem.kids) |->
                           IF elem.kids[i].tag # "tspan" THEN elem.kids[i]
                           ELSE _apply_value_to_node(elem.kids[i],
                                   IF TspanRank(elem.kids, i) <= Len(lines)
                                   THEN lines[TspanRank(elem.kids, i)] ELSE <<>>)]]

\* lines 121-146: _set_text on an element that is no group (or was reached through one)
WriteNode(elem, value) ==
    IF elem.tag = "tspan" THEN _apply_value_to_node(elem, value)
    ELSE IF elem.tag = "text" THEN write_text(elem, value)
    ELSE [elem EXCEPT !.text = Some(value)]

\* the element that _set_text(elem, value) writes into: a path under elem; None for a
\* group without a text or tspan descendant
SetTextTarget(elem) ==
    IF elem.tag = "g" THEN _find_text_or_tspan_descendant(elem) ELSE Some(<<>>)

\* _set_text(elem, value): elem as the call leaves it
_set_text(elem, value) ==
    IF elem.tag = "g"
    THEN LET target == _find_text_or_tspan_descendant(elem)
         IN IF target = None THEN elem
            ELSE LET cleared == _clear_all_text_descendants(elem, TheVal(target))
                 IN ReplaceAt(cleared, TheVal(target),
                              WriteNode(NodeAt(cleared, TheVal(target)), value))
    ELSE WriteNode(elem, value)

\* set_text_by_id(root, field_id, value): the tree as the call leaves it
set_text_by_id(root, field_id, value) ==
    LET elem == _find_by_id(root, field_id)
    IN IF elem = None THEN root
       ELSE ReplaceAt(root, TheVal(elem), _set_text(NodeAt(root, TheVal(elem)), value))

\* the value returned when only a write counts as an update
returns_written(root, field_id) ==
    \E p \in _find_by_id(root, field_id) : SetTextTarget(NodeAt(root, p)) # None

\* set_text_by_id(root, field_id, value): the value returned
set_text_by_id_returns(root, field_id) == _find_by_id(root, field_id) # None

-----------------------------------------------------------------------------
(* rename_test.py : main *)

\* backup_file: path.with_suffix(".backup-<stamp>.svg"), a sibling of the input
BackupPath(path) == "in.backup-STAMP.svg"

warn_always(updated_any) == TRUE

\* line 211: if not updated_any
ShouldWarn(updated_any) == ~updated_any

\* lines 188-194
RenCheck ==
    /\ prog = "rename" /\ pc = "start"
    /\ \/ /\ FileGet(fs, args.svg_path) = None
          /\ out' = Append(out, Say("stderr", "ERROR: not found"))
          /\ status' = "1" /\ pc' = "exit"
       \/ /\ FileGet(fs, args.svg_path) # None
          /\ ~(Truthy(args.title) \/ Truthy(args.description))
          /\ out' = Append(out, Say("stderr", "Nothing to do"))
          /\ status' = "1" /\ pc' = "exit"
       \/ /\ FileGet(fs, args.svg_path) # None
          /\ Truthy(args.title) \/ Truthy(args.description)
          /\ pc' = "parse"
          /\ UNCHANGED <<out, status>>
    /\ UNCHANGED <<prog, args, fs, tree, queue, flag, log, hist, pass>>

\* lines 196-205
RenParse ==
    /\ prog = "rename" /\ pc = "parse"
    /\ LET f == FileGet(fs, args.svg_path)
       IN \/ /\ \E c \in f : c.wf
             /\ tree' = TheVal(f).root
             /\ flag' = FALSE
             /\ log' = Append(log, Effect("read", args.svg_path))
             /\ pc' = "title"
             /\ UNCHANGED <<out, status>>
          \/ /\ ~(\E c \in f : c.wf)
             /\ out' = Append(out, Say("stderr", "ERROR parsing SVG"))
             /\ status' = "1" /\ pc' = "exit"
             /\ UNCHANGED <<tree, flag, log>>
    /\ UNCHANGED <<prog, args, fs, queue, hist, pass>>

\* updated_any |= set_text_by_id(root, field_id, value), observed in hist
Update(field_id, value) ==
    /\ tree' = Some(set_text_by_id(TheVal(tree), field_id, value))
    /\ flag' = (flag \/ set_text_by_id_returns(TheVal(tree), field_id))
    /\ hist' = Append(hist, [field |-> field_id, value |-> value,
                             returned |-> set_text_by_id_returns(TheVal(tree), field_id),
                             before |-> TheVal(tree),
                             after |-> set_text_by_id(TheVal(tree), field_id, value)])

\* lines 206-207
RenTitle ==
    /\ prog = "rename" /\ pc = "title"
    /\ IF args.title # None THEN Update("TITLE", TheVal(args.title))
       ELSE UNCHANGED <<tree, flag, hist>>
    /\ pc' = "description"
    /\ UNCHANGED <<prog, args, fs, queue, out, status, log, pass>>

\* lines 208-209
RenDescription ==
    /\ prog = "rename" /\ pc = "description"
    /\ IF args.description # None THEN Update("DESCRIPTION", TheVal(args.description))
       ELSE UNCHANGED <<tree, flag, hist>>
    /\ pc' = "warn"
    /\ UNCHANGED <<prog, args, fs, queue, out, status, log, pass>>

\* lines 211-212
RenWarn ==
    /\ prog = "rename" /\ pc = "warn"
    /\ out' = IF ShouldWarn(flag) THEN Append(out, Say("stderr", "WARNING: no elements found"))
              ELSE out
    /\ pc' = "backup"
    /\ UNCHANGED <<prog, args, fs, tree, queue, flag, status, log, hist, pass>>

\* lines 215-218
RenBackup ==
    /\ prog = "rename" /\ pc = "backup"
    /\ \/ /\ args.out = None
          /\ fs' = FilePut(fs, BackupPath(args.svg_path), fs[args.svg_path])
          /\ log' = Append(log, Effect("copy", BackupPath(args.svg_path)))
          /\ out' = Append(out, Say("stdout", "Backup written"))
          /\ pc' = "write"
          /\ UNCHANGED status
       \/ /\ args.out = None               \* shutil.copy2 raises: the interpreter exits with 1
          /\ status' = "1" /\ pc' = "exit"
          /\ UNCHANGED <<fs, log, out>>
       \/ /\ args.out # None
          /\ pc' = "write"
          /\ UNCHANGED <<fs, log, out, status>>
    /\ UNCHANGED <<prog, args, tree, queue, flag, hist, pass>>

\* line 215: out_path = args.out if args.out else args.svg_path
OutPath == IF args.out # None THEN TheVal(args.out) ELSE args.svg_path

\* lines 220-229
RenWrite ==
    /\ prog = "rename" /\ pc = "write"
    /\ \/ /\ fs' = FilePut(fs, OutPath, Some(XmlFile(Serialize(TheVal(tree)))))
          /\ log' = Append(log, Effect("write", OutPath))
          /\ out' = Append(out, Say("stdout", "Saved"))
          /\ status' = "0"
       \/ /\ UNCHANGED <<fs, log>>          \* the path cannot be opened for writing
          /\ out' = Append(out, Say("stderr", "ERROR writing output"))
          /\ status' = "1"
       \/ /\ fs' = FilePut(fs, OutPath, Some(Malformed))   \* the write fails half way
          /\ log' = Append(log, Effect("write", OutPath))
          /\ out' = Append(out, Say("stderr", "ERROR writing output"))
          /\ status' = "1"
    /\ pc' = "exit"
    /\ UNCHANGED <<prog, args, tree, queue, flag, hist, pass>>

NextRename ==
    RenCheck \/ RenParse \/ RenTitle \/ RenDescription \/ RenWarn \/ RenBackup \/ RenWrite

-----------------------------------------------------------------------------
(* rename_test.py : the documents and command lines the model is run on *)

MaxValLen == 3
MaxRuns == 3

ValChars == {"a", LF}
Values == UNION {[1..k -> ValChars] : k \in 0..MaxValLen}

IdAttr(id) == [k \in {"id"} |-> id]
Plain(tag, text, tail, kids) == Elem(tag, "svg", NoAttrs, text, tail, kids)
\* the k-th line run of a template: told apart by its dy
Run(k) == Elem("tspan", "svg", [a \in {"dy"} |-> ToString(k)], Some(<<"o">>), Some(<<SP>>), <<>>)

ShPlain(id) == Elem("text", "svg", IdAttr(id), Some(<<"o">>), Some(<<SP>>), <<>>)
ShRuns(id, n) == Elem("text", "svg", IdAttr(id), Some(<<"x">>), None, [k \in 1..n |-> Run(k)])
ShRunsMixed(id) ==
    Elem("text", "svg", IdAttr(id), None, None,
         <<Run(1), Plain("title", Some(<<"t">>), Some(<<"u">>), <<>>), Run(2)>>)
ShTspanId(id) ==
    Plain("text", Some(<<"x">>), None,
          << Elem("tspan", "svg", IdAttr(id), Some(<<"o">>), Some(<<SP>>),
                  <<Plain("tspan", Some(<<"q">>), Some(<<"r">>), <<>>)>>),
             Run(2) >>)
ShGroupRuns(id) ==
    Elem("g", "svg", IdAttr(id), None, None, <<Plain("text", None, None, <<Run(1), Run(2)>>)>>)
ShGroupDeep(id) ==
    Elem("g", "svg", IdAttr(id), None, None,
         << Plain("g", None, None, <<Plain("text", Some(<<"p">>), Some(<<"v">>), <<>>)>>),
            Plain("text", Some(<<"q">>), Some(<<"w">>), <<Run(1)>>) >>)
ShGroupShallow(id) ==
    Elem("g", "svg", IdAttr(id), None, None,
         << Plain("text", Some(<<"q">>), None, <<>>),
            Plain("g", None, None,
                  <<Plain("text", Some(<<"p">>), None,
                          <<Plain("a", Some(<<"z">>), Some(<<"t">>), <<>>)>>)>>),
            Plain("tspan", Some(<<"s">>), Some(<<"y">>), <<>>) >>)
ShGroupTspan(id) ==
    Elem("g", "svg", IdAttr(id), None, None,
         << Plain("rect", None, None, <<>>),
            Plain("g", None, None, <<Plain("tspan", Some(<<"o">>), None, <<>>)>>),
            Plain("text", Some(<<"p">>), None, <<>>) >>)
ShGroupNoText(id) ==
    Elem("g", "svg", IdAttr(id), Some(<<SP>>), None, <<Plain("rect", None, Some(<<SP>>), <<>>)>>)
ShGroupBare(id) == Elem("g", "svg", IdAttr(id), None, None, <<>>)
ShOther(id) == Elem("rect", "svg", IdAttr(id), None, None, <<>>)

Shapes(id) ==
    {ShPlain(id), ShRunsMixed(id), ShTspanId(id), ShGroupRuns(id), ShGroupDeep(id),
     ShGroupShallow(id), ShGroupTspan(id), ShGroupNoText(id), ShGroupBare(id), ShOther(id)}
    \cup {ShRuns(id, n) : n \in 1..MaxRuns}

\* the second element of a document: the other field, a second element with the
\* same id, or an element without id
SecondSlots == {ShPlain("DESCRIPTION"), ShRuns("TITLE", 2), Plain("rect", None, None, <<>>)}

\* documents whose root element carries the identifier of a field
RootIdDocs ==
    { Elem("svg", "svg", IdAttr("TITLE"), None, None, <<ShPlain("LOGO"), second>>) :
        second \in SecondSlots }

RenDocs ==
    { Plain("svg", None, None, <<first, second>>) :
        first \in Shapes("TITLE") \cup Shapes("LOGO"), second \in SecondSlots }
    \cup RootIdDocs

\* the command lines: every title value on its own, and a few title values with
\* every description and every output path (none, the input path itself, another)
CommandLines ==
    { [svg_path |-> "in.svg", title |-> t, description |-> None, out |-> Some("out.svg")] :
        t \in {None} \cup {Some(v) : v \in Values} }
    \cup
    { [svg_path |-> "in.svg", title |-> t, description |-> d, out |-> o] :
        t \in {None, Some(<<>>), Some(<<"a">>), Some(<<"a", LF, "a">>)},
        d \in {None, Some(<<>>), Some(<<"d", LF, "e">>)},
        o \in {None, Some("in.svg"), Some("out.svg")} }

InitRename ==
    /\ prog = "rename" /\ pc = "start" /\ status = "running" /\ pass = 1
    /\ fs \in {[p \in {"in.svg"} |-> Some(XmlFile(d))] : d \in RenDocs}
               \cup {[p \in {"in.svg"} |-> Some(Malformed)], [p \in {} |-> None]}
    /\ args \in CommandLines
    /\ tree = None /\ queue = <<>> /\ flag = FALSE
    /\ out = <<>> /\ log = <<>> /\ hist = <<>>

SpecRename == InitRename /\ [][NextRename]_vars

-----------------------------------------------------------------------------
(* Either script is run *)

InitAll == InitFix \/ InitRename
NextAll == NextFix \/ NextRename
SpecAll == InitAll /\ [][NextAll]_vars

-----------------------------------------------------------------------------
(* Properties of line normalization (checked under SpecFix) *)

\* the document the first run was given
FixInput == TheVal(TheVal(fs["in.svg"]).root)
\* the first run has processed every element (its loops are over)
FixPassDone == prog = "fix" /\ pass = 1 /\ pc = "exit" /\ tree # None
\* the elements of a sequence of elements that are tspans
Tspans(kids) == SelectSeq(kids, LAMBDA c : c.tag = "tspan")
\* the number of escape markers in s
MarkerCount(s) == Cardinality({i \in 1..(Len(s) - 1) : s[i] = BS /\ s[i + 1] = "n"})
RECURSIVE JoinMarker(_)
\* the strings of a non-empty sequence, joined by the escape marker
JoinMarker(ss) ==
    IF Len(ss) = 1 THEN ss[1] ELSE ss[1] \o <<BS, "n">> \o JoinMarker(Tail(ss))
RECURSIVE AnyMarker(_)
\* some text or tspan element of the tree t holds the escape marker in its text
AnyMarker(t) ==
    \/ t.tag \in {"text", "tspan"} /\ Truthy(t.text) /\ HasMarker(TheVal(t.text))
    \/ \E i \in 1..Len(t.kids) : AnyMarker(t.kids[i])
\* a text element with the marker neither in its direct text nor in a tspan child
NoMarkerText(e) ==
    /\ ~(Truthy(e.text) /\ HasMarker(TheVal(e.text)))
    /\ \A i \in 1..Len(e.kids) :
          e.kids[i].tag = "tspan" => ~(Truthy(e.kids[i].text) /\ HasMarker(TheVal(e.kids[i].text)))
TextPaths(t) == {FindallText(t)[i] : i \in 1..Len(FindallText(t))}

\* C1: line normalization is idempotent: the second run writes the tree the first run
\* wrote, and after the first run no text or tspan element holds the escape marker
\* (also with a marker both in the direct text and in a tspan child, with and without
\* the SVG namespace).
C1_Idempotent ==
    /\ Len(hist) >= 1 => ~AnyMarker(hist[1])
    /\ Len(hist) >= 2 => hist[2] = hist[1]

\* C5: a text element without tspan children whose direct text holds k >= 1 markers
\* has, after the run, exactly k+1 tspan children, in order, the i-th holding the i-th
\* substring between markers (an empty one between adjacent markers).
C5_LineCount ==
    FixPassDone =>
        \A p \in TextPaths(FixInput) :
            LET e0 == NodeAt(FixInput, p)
                ts == Tspans(NodeAt(TheVal(tree), p).kids)
            IN (Tspans(e0.kids) = <<>> /\ Truthy(e0.text) /\ MarkerCount(TheVal(e0.text)) >= 1)
               => /\ Len(ts) = MarkerCount(TheVal(e0.text)) + 1
                  /\ \A i \in 1..Len(ts) : ts[i].text # None /\ ~HasMarker(TheVal(ts[i].text))
                  /\ JoinMarker([i \in 1..Len(ts) |-> TheVal(ts[i].text)]) = TheVal(e0.text)

\* C5 witness: a direct text with two adjacent markers became three tspans, the
\* middle one empty
C5_Witness ==
    /\ FixPassDone
    /\ LET e0 == NodeAt(FixInput, <<2>>)
           e1 == NodeAt(TheVal(tree), <<2>>)
       IN /\ e0.kids = <<>> /\ e0.text = Some(<<"a", BS, "n", BS, "n">>)
          /\ Len(e1.kids) = 3 /\ e1.kids[1].text = Some(<<"a">>)
          /\ e1.kids[2].text = Some(<<>>) /\ e1.kids[3].text = Some(<<>>)

\* the style values of the documents that declare a non-zero pixel font size, with
\* the length Python prints for 1.2 times that size
DeclaredLineHeight(style) ==
    IF style \in {Some(StyleFont10), Some(StyleWsFont10)} THEN "12.0px"
    ELSE IF style = Some(StyleFont8) THEN "9.6px"
    ELSE "14.399999999999999px"
\* the same, written as the specification writes a length (12px)
SpecLineHeight(style) ==
    IF style \in {Some(StyleFont10), Some(StyleWsFont10)} THEN "12px"
    ELSE IF style = Some(StyleFont8) THEN "9.6px"
    ELSE "14.4px"
\* the tspans a split of the direct text appended to the element at p: its last
\* children, one per line
Produced(p) ==
    LET n == MarkerCount(TheVal(NodeAt(FixInput, p).text)) + 1
        k == NodeAt(TheVal(tree), p).kids
    IN SubSeq(k, Len(k) - n + 1, Len(k))
ProducedText(p) == [i \in 1..Len(Produced(p)) |-> TheVal(Produced(p)[i].text)]

C10_OnlyEligible ==
    FixPassDone =>
        /\ \A p \in TextPaths(FixInput) :
              NoMarkerText(NodeAt(FixInput, p)) => NodeAt(TheVal(tree), p) = NodeAt(FixInput, p)
        /\ (\A p \in TextPaths(FixInput) : NoMarkerText(NodeAt(FixInput, p))) => ~flag

-----------------------------------------------------------------------------
(* Properties of the field update (checked under SpecRename) *)

IsPrefix(p, q) == Len(p) <= Len(q) /\ SubSeq(q, 1, Len(p)) = p
\* p comes before q in document order
DocBefore(p, q) ==
    \/ Len(p) < Len(q) /\ IsPrefix(p, q)
    \/ \E i \in 1..Len(p) : /\ i <= Len(q) /\ p[i] < q[i]
                            /\ SubSeq(p, 1, i - 1) = SubSeq(q, 1, i - 1)
PathSet(t) == {<<>>} \cup {DescendantPaths(t, <<>>)[i] : i \in 1..Len(DescendantPaths(t, <<>>))}
\* what an element holds itself
Own(t, p) == [NodeAt(t, p) EXCEPT !.kids = Len(NodeAt(t, p).kids)]
Structure(t, p) == [Own(t, p) EXCEPT !.text = None, !.tail = None]
RECURSIVE JoinLF(_)
JoinLF(ss) == IF Len(ss) = 1 THEN ss[1] ELSE ss[1] \o <<LF>> \o JoinLF(Tail(ss))
LFCount(s) == Cardinality({i \in 1..Len(s) : s[i] = LF})

\* the calls of set_text_by_id made so far
Calls == {hist[i] : i \in 1..Len(hist)}
\* the element a call located (a path; the call found one)
Located(r) == TheVal(_find_by_id(r.before, r.field))
Found(r) == _find_by_id(r.before, r.field) # None
\* the text and tspan descendants of the element at p, as paths under it
TextBearing(t, p) ==
    {q \in PathSet(NodeAt(t, p)) : q # <<>> /\ NodeAt(NodeAt(t, p), q).tag \in {"text", "tspan"}}
ViaGroup(r) == Found(r) /\ NodeAt(r.before, Located(r)).tag = "g"
\* the call wrote into some element
Wrote(r) == Found(r) /\ SetTextTarget(NodeAt(r.before, Located(r))) # None
\* the element the call wrote into
Written(r) == Located(r) \o TheVal(SetTextTarget(NodeAt(r.before, Located(r))))
\* the element e holds the value as _set_text leaves it there
Holds(e, value) ==
    IF e.tag = "text" /\ Tspans(e.kids) # <<>>
    THEN Tspans(e.kids)[1].text = Some(SplitLF(value)[1])
    ELSE e.text = Some(value)

Clearable(r, q) ==
    /\ ViaGroup(r)
    /\ IsPrefix(Located(r), q) /\ q # Located(r)
    /\ \/ NodeAt(r.before, q).tag \in {"text", "tspan"}
       \/ LET parent == SubSeq(q, 1, Len(q) - 1)
          IN parent # Located(r) /\ NodeAt(r.before, parent).tag \in {"text", "tspan"}

\* C3 as stated: a field update leaves every element outside the subtree of the
\* element it writes into unchanged (attributes, child order, text, tail); the
\* text-bearing descendants of a group that are not chosen are left as they were.
C3_AsStated ==
    \A r \in Calls :
        Wrote(r) =>
            /\ PathSet(r.after) = PathSet(r.before)
            /\ \A q \in PathSet(r.before) :
                  ~IsPrefix(Written(r), q) => Own(r.after, q) = Own(r.before, q)

\* C3 amended: outside the subtree of the element written into, a field update
\* changes no attribute, no tag and no child order; text and tail are changed only
\* under a group the identifier is bound to: there every text or tspan descendant that
\* is not chosen, and every child of such a descendant, has its text and tail set to
\* the empty string; every other element keeps its text and tail.
C3_NonTarget ==
    \A r \in Calls :
        Wrote(r) =>
            /\ PathSet(r.after) = PathSet(r.before)
            /\ \A q \in PathSet(r.before) :
                  ~IsPrefix(Written(r), q) =>
                     /\ Structure(r.after, q) = Structure(r.before, q)
                     /\ IF Clearable(r, q)
                        THEN NodeAt(r.after, q).text = Empty /\ NodeAt(r.after, q).tail = Empty
                        ELSE /\ NodeAt(r.after, q).text = NodeAt(r.before, q).text
                             /\ NodeAt(r.after, q).tail = NodeAt(r.before, q).tail

\* C3 witness: the identifier is bound to a group with two text elements; the one
\* not chosen lost its text and tail, and so did its tspan
C3_Witness ==
    \E r \in Calls :
        /\ Wrote(r) /\ NodeAt(r.before, Located(r)) = ShGroupDeep("TITLE")
        /\ Written(r) = Located(r) \o <<1, 1>>
        /\ NodeAt(r.before, Located(r) \o <<2>>).text = Some(<<"q">>)
        /\ NodeAt(r.after, Located(r) \o <<2>>).text = Empty
        /\ NodeAt(r.after, Located(r) \o <<2, 1>>).text = Empty

\* C4 as stated: through a group, the text goes to the first text or tspan descendant
\* in breadth-first order (the shallowest, and among those the first in document
\* order), never to the group itself.
C4_AsStated ==
    \A r \in Calls :
        (ViaGroup(r) /\ TextBearing(r.before, Located(r)) # {}) =>
            LET cands == TextBearing(r.before, Located(r))
                t == TheVal(SetTextTarget(NodeAt(r.before, Located(r))))
            IN /\ t \in cands
               /\ \A q \in cands \ {t} : Len(t) < Len(q) \/ (Len(t) = Len(q) /\ DocBefore(t, q))

\* C4 amended: through a group, the text goes to the first text or tspan descendant
\* of the group in document order (pre-order, depth-first), so a text node nested
\* under an earlier sibling is chosen over a later direct child; the group itself is
\* never written, and with a single text-bearing descendant that one is chosen.
C4_GroupIndirection ==
    \A r \in Calls :
        (ViaGroup(r) /\ TextBearing(r.before, Located(r)) # {}) =>
            LET cands == TextBearing(r.before, Located(r))
                t == TheVal(SetTextTarget(NodeAt(r.before, Located(r))))
            IN /\ SetTextTarget(NodeAt(r.before, Located(r))) # None
               /\ t \in cands
               /\ \A q \in cands \ {t} : DocBefore(t, q)
               /\ Holds(NodeAt(r.after, Located(r) \o t), r.value)
               /\ Own(r.after, Located(r)) = Own(r.before, Located(r))

\* C4 witness: the group holds a text nested in a group and then a text of its own;
\* the nested one received the value
C4_Witness ==
    \E r \in Calls :
        /\ ViaGroup(r) /\ NodeAt(r.before, Located(r)) = ShGroupDeep("TITLE")
        /\ SetTextTarget(NodeAt(r.before, Located(r))) = Some(<<1, 1>>)
        /\ NodeAt(r.after, Located(r) \o <<1, 1>>).text = Some(r.value)
        /\ NodeAt(r.after, Located(r) \o <<2>>).text # Some(r.value)

\* the document the run was given (before anything is written)
RenInput == TheVal(TheVal(fs["in.svg"]).root)
Fields == {"TITLE", "DESCRIPTION"}
Requested(f) == IF f = "TITLE" THEN args.title # None ELSE args.description # None
\* some element below the root carries the identifier
Present(f) == \E q \in PathSet(RenInput) \ {<<>>} : AttrGet(NodeAt(RenInput, q), "id") = Some(f)
Warned == \E i \in 1..Len(out) : out[i] = Say("stderr", "WARNING: no elements found")
\* the fields have been processed and the warning decided; nothing is written yet
AfterWarn == prog = "rename" /\ pc \in {"backup", "write"}

\* C7 as stated: every requested identifier that is absent produces a warning, the
\* run does not fail, and every other requested field is still written.
C7_AsStated ==
    AfterWarn =>
        /\ \A f \in Fields : (Requested(f) /\ ~Present(f)) => Warned
        /\ status = "running"
        /\ \A f \in Fields : (Requested(f) /\ Present(f)) =>
              \E r \in Calls : r.field = f /\ r.returned

\* C7 amended: a warning is produced exactly when none of the requested identifiers
\* is in the document (an absent identifier beside a present one is not warned
\* about); the run does not fail, and every requested field that is present is still
\* processed.
C7_NotFound ==
    AfterWarn =>
        /\ Warned <=> ~(\E f \in Fields : Requested(f) /\ Present(f))
        /\ status = "running"
        /\ \A f \in Fields : (Requested(f) /\ Present(f)) =>
              \E r \in Calls : r.field = f /\ r.returned /\ Found(r)
        /\ \A f \in Fields : (Requested(f) /\ ~Present(f)) =>
              \E r \in Calls : r.field = f /\ ~r.returned /\ r.after = r.before

\* C7 witness: TITLE is requested and absent, DESCRIPTION is requested, present and
\* written, and there is no warning
C7_Witness ==
    /\ AfterWarn /\ Requested("TITLE") /\ ~Present("TITLE")
    /\ Requested("DESCRIPTION") /\ Present("DESCRIPTION")
    /\ \E r \in Calls : r.field = "DESCRIPTION" /\ r.after # r.before
    /\ ~Warned

\* the call located a group without text or tspan descendant
EmptyGroup(r) == ViaGroup(r) /\ TextBearing(r.before, Located(r)) = {}

\* C8 as stated: for a group without text-bearing descendant nothing is modified,
\* the field is not counted as updated and a warning reports it, and the run goes on.
C8_AsStated ==
    \A r \in Calls :
        EmptyGroup(r) =>
            /\ r.after = r.before
            /\ ~r.returned
            /\ AfterWarn => (Warned /\ status = "running")

\* C8 amended: for a group without text-bearing descendant nothing in the tree is
\* modified and the run goes on without failing, but the field counts as updated
\* (set_text_by_id returns True), so no warning is given for it.
C8_FieldEmpty ==
    \A r \in Calls :
        EmptyGroup(r) =>
            /\ r.after = r.before
            /\ r.returned
            /\ flag
            /\ AfterWarn => (~Warned /\ status = "running")

\* C8 witness: TITLE is bound to a group holding only a rect; the run has passed the
\* warning step
C8_Witness ==
    /\ AfterWarn
    /\ \E r \in Calls : /\ EmptyGroup(r) /\ r.field = "TITLE"
                        /\ NodeAt(r.before, Located(r)) = ShGroupNoText("TITLE")

\* C9: no file is created or written before the input is parsed (a parse failure
\* ends the run with status 1, no backup and no output); without an output path the
\* backup copy is complete before the input path is written; with an output path
\* the input path is never written and no backup is made.
C9_FileOrdering ==
    prog = "rename" =>
        /\ \A i \in 1..Len(log) :
              log[i].op \in {"copy", "write"} => \E j \in 1..(i - 1) : log[j].op = "read"
        /\ (\E i \in 1..Len(out) : out[i] = Say("stderr", "ERROR parsing SVG")) =>
              /\ status = "1" /\ log = <<>> /\ DOMAIN fs = {"in.svg"}
        /\ args.out = None =>
              \A i \in 1..Len(log) :
                 log[i] = Effect("write", args.svg_path) =>
                    /\ \E j \in 1..(i - 1) : log[j] = Effect("copy", BackupPath(args.svg_path))
                    /\ BackupPath(args.svg_path) \in DOMAIN fs
        /\ args.out # None =>
              \A i \in 1..Len(log) :
                 log[i] # Effect("write", args.svg_path) /\ log[i].op # "copy"

\* the run stopped at the check of line 192
NothingToDo == \E i \in 1..Len(out) : out[i] = Say("stderr", "Nothing to do")
\* the number of identifier-to-value pairs on the command line
Pairs == Cardinality({f \in Fields : Requested(f)})

\* C11: a field-update run on an existing file is refused exactly when no
\* identifier-to-value pair is given: with none it ends with status 1 before parsing
\* and writes nothing; with one or more it goes on to parse, whatever the values are,
\* the empty string included.
C11_Accepted ==
    (prog = "rename" /\ pc # "start" /\ FileGet(fs, args.svg_path) # None) =>
        /\ NothingToDo <=> Pairs = 0
        /\ NothingToDo => (status = "1" /\ tree = None /\ log = <<>> /\ DOMAIN fs = {"in.svg"})

-----------------------------------------------------------------------------
(* Further properties of line normalization (checked under SpecFix) *)

\* C12: after the split of a direct text that holds the marker, the children of the
\* text element are exactly the new tspans, one per line and in line order; no child
\* it had before the split remains.
C12_ReplacesChildren ==
    FixPassDone =>
        \A p \in TextPaths(FixInput) :
            LET e0 == NodeAt(FixInput, p)
                e1 == NodeAt(TheVal(tree), p)
            IN DirectMarker(e0) =>
                 /\ Len(e1.kids) = MarkerCount(TheVal(e0.text)) + 1
                 /\ \A i \in 1..Len(e1.kids) : e1.kids[i].tag = "tspan" /\ e1.kids[i].text # None
                 /\ \A i \in 1..Len(e1.kids), j \in 1..Len(e0.kids) : e1.kids[i] # e0.kids[j]

\* the number of children that child i of kids gives after the splice: its lines when
\* it is a tspan holding the marker, itself otherwise
SpliceWidth(kids, i) ==
    IF Offending(kids[i]) THEN MarkerCount(TheVal(kids[i].text)) + 1 ELSE 1
RECURSIVE SpliceStart(_, _)
\* the place, among the children after the splice, where child i of kids (or its
\* first line) is expected
SpliceStart(kids, i) ==
    IF i = 1 THEN 1 ELSE SpliceStart(kids, i - 1) + SpliceWidth(kids, i - 1)
\* a text element without marker in its direct text, with a tspan child that holds it
SpliceCase(e) == ~DirectMarker(e) /\ \E i \in 1..Len(e.kids) : Offending(e.kids[i])
\* the tspans found, after the run, where child i of the element at p was
SplicedIn(p, i) ==
    LET k0 == NodeAt(FixInput, p).kids
        k1 == NodeAt(TheVal(tree), p).kids
    IN SubSeq(k1, SpliceStart(k0, i), SpliceStart(k0, i) + SpliceWidth(k0, i) - 1)
\* the children are laid out as the splice lays them out: every child that holds no
\* marker is found unchanged at its place, and every tspan that holds the marker has
\* its lines there, in line order, as tspans
SplicedInPlace(p) ==
    LET k0 == NodeAt(FixInput, p).kids
        k1 == NodeAt(TheVal(tree), p).kids
    IN /\ Len(k1) = SpliceStart(k0, Len(k0)) + SpliceWidth(k0, Len(k0)) - 1
       /\ \A i \in 1..Len(k0) :
             IF ~Offending(k0[i]) THEN SplicedIn(p, i) = <<k0[i]>>
             ELSE /\ \A j \in 1..Len(SplicedIn(p, i)) :
                        /\ SplicedIn(p, i)[j].tag = "tspan" /\ SplicedIn(p, i)[j].text # None
                        /\ SplicedIn(p, i)[j].kids = <<>>
                  /\ JoinMarker([j \in 1..Len(SplicedIn(p, i)) |-> TheVal(SplicedIn(p, i)[j].text)])
                        = TheVal(k0[i].text)

-----------------------------------------------------------------------------
(* Properties of both scripts (checked under SpecAll) *)

\* the tspan children of the element at p after the fix run that the run created
\* (they were not among its children before)
NewRuns(p) ==
    SelectSeq(NodeAt(TheVal(tree), p).kids,
              LAMBDA c : c.tag = "tspan" /\ \A j \in 1..Len(NodeAt(FixInput, p).kids) :
                                               NodeAt(FixInput, p).kids[j] # c)
\* no tspan created by the fix run holds the escape marker
SplitterOneLine ==
    (prog = "fix" /\ FixPassDone) =>
        \A p \in TextPaths(FixInput) :
            \A i \in 1..Len(NewRuns(p)) :
                NewRuns(p)[i].text # None /\ ~HasMarker(TheVal(NewRuns(p)[i].text))
\* the calls of set_text_by_id of a field-update run
RenCalls == IF prog = "rename" THEN Calls ELSE {}

\* C14 as stated: no tspan written by the splitter holds an escape marker, and no
\* tspan written by the writer holds a line feed, also when the element written into
\* is itself a tspan and the value has several lines.
C14_AsStated ==
    /\ SplitterOneLine
    /\ \A r \in RenCalls :
          Wrote(r) =>
              LET e1 == NodeAt(r.after, Written(r))
              IN /\ e1.tag = "tspan" => \A v \in e1.text : LFCount(v) = 0
                 /\ e1.tag = "text" =>
                       \A i \in 1..Len(Tspans(e1.kids)) :
                           \A v \in Tspans(e1.kids)[i].text : LFCount(v) = 0

\* C14 amended: no tspan created by the splitter holds an escape marker; the writer,
\* on a text element with tspan children, leaves no tspan child with a line feed; but
\* when the element written into is itself a tspan (located by its identifier, or
\* chosen under a group), it receives the whole value, line feeds included.
C14_OneLinePerRun ==
    /\ SplitterOneLine
    /\ \A r \in RenCalls :
          Wrote(r) =>
              LET e1 == NodeAt(r.after, Written(r))
              IN /\ e1.tag = "tspan" => e1.text = Some(r.value)
                 /\ e1.tag = "text" =>
                       \A i \in 1..Len(Tspans(e1.kids)) :
                           \A v \in Tspans(e1.kids)[i].text : LFCount(v) = 0

\* C14 witness: a value of two lines was written into a tspan that carries the
\* identifier; the tspan holds both lines
C14_Witness ==
    \E r \in RenCalls :
        /\ Wrote(r) /\ NodeAt(r.before, Written(r)).tag = "tspan"
        /\ AttrGet(NodeAt(r.before, Written(r)), "id") = Some("TITLE")
        /\ r.value = <<"a", LF, "a">>
        /\ NodeAt(r.after, Written(r)).text = Some(<<"a", LF, "a">>)

\* the element has a non-empty text of its own and a tspan child with non-empty text
BothCarriers(e) ==
    Truthy(e.text) /\ \E i \in 1..Len(e.kids) : e.kids[i].tag = "tspan" /\ Truthy(e.kids[i].text)
\* the writer on a text element: through its tspans with its own text cleared, or into
\* its own text when it has no tspan child
WriterExclusive ==
    \A r \in RenCalls :
        (Wrote(r) /\ NodeAt(r.before, Written(r)).tag = "text") =>
            LET e0 == NodeAt(r.before, Written(r))
                e1 == NodeAt(r.after, Written(r))
            IN /\ ~BothCarriers(e1)
               /\ IF Tspans(e0.kids) # <<>>
                  THEN e1.text = None /\ Tspans(e1.kids)[1].text = Some(SplitLF(r.value)[1])
                  ELSE e1.text = Some(r.value) /\ Tspans(e1.kids) = <<>>

\* C15 as stated: after the writer has written a text element, and after the fix run
\* on a text element that held a marker (in its direct text or in a tspan child), the
\* element does not have both a non-empty text of its own and a tspan child with
\* non-empty text.
C15_AsStated ==
    /\ WriterExclusive
    /\ (prog = "fix" /\ FixPassDone) =>
          \A p \in TextPaths(FixInput) :
              (DirectMarker(NodeAt(FixInput, p)) \/ SpliceCase(NodeAt(FixInput, p)))
                  => ~BothCarriers(NodeAt(TheVal(tree), p))

\* C15 amended: the writer never leaves a text element with both carriers; the fix run
\* clears the element's own text when the marker was in it; when the marker was only
\* in tspan children, the element's own text is left as it was, so an element that had
\* a non-empty text of its own beside the tspans still has it after the run.
C15_Exclusive ==
    /\ WriterExclusive
    /\ (prog = "fix" /\ FixPassDone) =>
          \A p \in TextPaths(FixInput) :
              LET e0 == NodeAt(FixInput, p)
                  e1 == NodeAt(TheVal(tree), p)
              IN /\ DirectMarker(e0) => (e1.text = None /\ ~BothCarriers(e1))
                 /\ SpliceCase(e0) => /\ e1.text = e0.text
                                      /\ Truthy(e0.text) => BothCarriers(e1)

\* C15 witness: the text "a" beside a tspan holding the marker: after the run the
\* tspan is split and the text "a" is still there
C15_Witness ==
    /\ prog = "fix" /\ FixPassDone
    /\ NodeAt(FixInput, <<2>>).text = Some(<<"a">>)
    /\ NodeAt(FixInput, <<2>>).kids = <<KidMarker>>
    /\ NodeAt(TheVal(tree), <<2>>).text = Some(<<"a">>)
    /\ Len(NodeAt(TheVal(tree), <<2>>).kids) = 2
    /\ BothCarriers(NodeAt(TheVal(tree), <<2>>))

-----------------------------------------------------------------------------
(* Further properties of the field update (checked under SpecRename) *)

\* the elements of t, the root included, that carry the identifier
Carriers(t, id) == {q \in PathSet(t) : AttrGet(NodeAt(t, q), "id") = Some(id)}
\* the first of a non-empty set of paths in document order
FirstInDocOrder(ps) == CHOOSE q \in ps : \A o \in ps \ {q} : DocBefore(q, o)

\* C16: a call addresses the first element in document order, the root included, that
\* carries the identifier, whatever its tag; it reports not found exactly when no
\* element of the tree carries it (and then changes nothing); with several carriers
\* only the first is written and the later ones are unchanged.
C16_LocateFirst ==
    \A r \in Calls :
        LET hits == Carriers(r.before, r.field)
        IN /\ r.returned <=> hits # {}
           /\ hits = {} => r.after = r.before
           /\ hits # {} =>
                 LET f == FirstInDocOrder(hits)
                 IN /\ r.after = ReplaceAt(r.before, f, _set_text(NodeAt(r.before, f), r.value))
                    /\ \A o \in hits \ {f} :
                          ~IsPrefix(f, o) => NodeAt(r.after, o) = NodeAt(r.before, o)

-----------------------------------------------------------------------------
(* Style sanitizing (checked under SpecFix) *)

RECURSIVE SplitSemi(_)
\* the parts of a style between its separators
SplitSemi(toks) ==
    IF \A i \in 1..Len(toks) : toks[i] # ";" THEN <<toks>>
    ELSE LET i == CHOOSE k \in 1..Len(toks) : toks[k] = ";" /\ \A m \in 1..(k - 1) : toks[m] # ";"
         IN <<SubSeq(toks, 1, i - 1)>> \o SplitSemi(SubSeq(toks, i + 1, Len(toks)))
\* a part without the spaces around it
TrimSpaces(d) == StripChars(d, {SP})
\* the declarations of a style, in order: its parts that are not blank
Decls(toks) ==
    SelectSeq([i \in 1..Len(SplitSemi(toks)) |-> TrimSpaces(SplitSemi(toks)[i])],
              LAMBDA d : d # <<>>)
IsWhiteSpaceDecl(d) == d[1] = "white-space"
HasWhiteSpaceDecl(style) ==
    \E v \in style : \E i \in 1..Len(Decls(v)) : IsWhiteSpaceDecl(Decls(v)[i])
\* no separator at either end, no two separators in a row, nothing blank between two
NoStraySeparators(toks) ==
    toks = <<>> \/ \A i \in 1..Len(SplitSemi(toks)) : TrimSpaces(SplitSemi(toks)[i]) # <<>>

\* C17: after the run every text element carries xml:space="preserve" and its other
\* attributes but style are as before; a style with a white-space declaration has lost
\* exactly the white-space declarations, the others being unchanged and in their order,
\* with no empty, doubled, leading or trailing separator; a style without one is
\* unchanged; sanitizing the result again, in the same run or in a second run, changes
\* nothing.
C17_Sanitize ==
    /\ (prog = "fix" /\ Len(hist) >= 2) =>
          \A p \in TextPaths(FixInput) : NodeAt(hist[2], p).attrs = NodeAt(hist[1], p).attrs
    /\ FixPassDone =>
        \A p \in TextPaths(FixInput) :
            LET e0 == NodeAt(FixInput, p)
                e1 == NodeAt(TheVal(tree), p)
            IN /\ AttrGet(e1, "xml:space") = Some("preserve")
               /\ DOMAIN e1.attrs = (DOMAIN e0.attrs) \cup {"xml:space"}
               /\ \A a \in (DOMAIN e0.attrs) \ {"style", "xml:space"} : e1.attrs[a] = e0.attrs[a]
               /\ IF HasWhiteSpaceDecl(AttrGet(e0, "style"))
                  THEN /\ Decls(e1.attrs["style"])
                             = SelectSeq(Decls(e0.attrs["style"]), LAMBDA d : ~IsWhiteSpaceDecl(d))
                       /\ NoStraySeparators(e1.attrs["style"])
                  ELSE AttrGet(e1, "style") = AttrGet(e0, "style")
               /\ Sanitized(e1) = e1

\* C17 witness: of fill, white-space, white-space and font-size, with a trailing
\* separator, fill and font-size are left, and a second run has written the same
C17_Witness ==
    /\ prog = "fix" /\ Len(hist) = 2
    /\ NodeAt(hist[2], <<2>>).ns = "svg"
    /\ AttrGet(NodeAt(hist[2], <<2>>), "xml:space") = Some("preserve")
    /\ AttrGet(NodeAt(FixInput, <<2>>), "style")
          = Some(JoinDecls(<<DeclFill, DeclWs, DeclWsSpaced, DeclFont>>, <<";">>) \o <<";">>)
    /\ AttrGet(NodeAt(hist[2], <<2>>), "style") = Some(JoinDecls(<<DeclFill, DeclFont>>, <<";">>))

====
